---- MODULE Spec2Model ----
(***************************************************************************)
(* Model of the GDB helper commands of langkit (langkit/gdb/commands.py): *)
(* StateCommand / StatePrinter, BreakCommand and OutCommand.               *)
(*                                                                         *)
(* Texts that the code processes character by character (command          *)
(* arguments, property names, generated variable names) are sequences of  *)
(* one-character strings.  A printed line is the sequence of the pieces   *)
(* that str.format concatenates.  Python's None is the empty sequence and *)
(* a present value x is <<x>>.                                             *)
(***************************************************************************)
EXTENDS Integers, Sequences, FiniteSets, TLC

VARIABLES
    dbg,         \* context.debug_info: [filename, properties]
    state,       \* what context.decode_state yields at the current stop
    cur_line,    \* generated line of the selected frame (0: left open)
    frame_vars,  \* values of the variables of the selected frame
    pc,          \* "idle", or "running" while gdb.execute('until ..') blocks
    cmd,         \* the last command invoked: [name, arg]
    output,      \* the lines printed by the last command
    breakpoints, \* the gdb.Breakpoint locations created by the last command
    untils,      \* the 'until' requests issued by the last command
    raised,      \* the exception the last command ended with, or "none"
    pending      \* locals of the last OutCommand.invoke that called
                 \* gdb.execute: state.property and current_expr

vars == <<dbg, state, cur_line, frame_vars, pc, cmd, output, breakpoints, untils,
          raised, pending>>

(***************************************************************************)
(* Bounds of the model.                                                    *)
(***************************************************************************)
MaxArgLen == 3
MaxProps == 2
MaxNodes == 3
MaxPropNodes == 2
MaxScopes == 2
MaxExprs == 2

None == <<>>
Some(x) == <<x>>

(***************************************************************************)
(* Texts.                                                                  *)
(***************************************************************************)
WhiteSpace == {" ", "\t"}

\* A lower() that leaves every character as it is.
LowerCharBug(c) == c

LowerChar(c) ==
    CASE c = "P" -> "p"
      [] c = "Q" -> "q"
      [] c = "X" -> "x"
      [] c = "R" -> "r"
      [] c = "F" -> "f"
      [] OTHER -> c

Lower(s) == [i \in 1..Len(s) |-> LowerChar(s[i])]

RECURSIVE LStrip(_)
LStrip(s) ==
    IF s # <<>> /\ Head(s) \in WhiteSpace THEN LStrip(Tail(s)) ELSE s

RECURSIVE RStrip(_)
RStrip(s) ==
    IF s # <<>> /\ s[Len(s)] \in WhiteSpace
    THEN RStrip(SubSeq(s, 1, Len(s) - 1))
    ELSE s

Strip(s) == RStrip(LStrip(s))

Contains(s, c) == \E i \in 1..Len(s) : s[i] = c

RECURSIVE SeqsUpTo(_, _)
SeqsUpTo(S, n) ==
    IF n = 0 THEN {<<>>}
    ELSE LET shorter == SeqsUpTo(S, n - 1)
         IN  shorter \cup {Append(s, x) : s \in shorter, x \in S}

Line(fmt, args) == [fmt |-> fmt, args |-> args]

(***************************************************************************)
(* DSLLocation (langkit.gdb.debug_info).  A request "<file>:<line>" is    *)
(* parsed into a file name and a line number.                              *)
(***************************************************************************)
Digits == {"1", "2"}

DigitValue(c) == IF c = "1" THEN 1 ELSE 2

RECURSIVE ParseInt(_)
ParseInt(ds) ==
    IF ds = <<>> THEN 0
    ELSE 10 * ParseInt(SubSeq(ds, 1, Len(ds) - 1)) + DigitValue(ds[Len(ds)])

ColonPos(s) == CHOOSE i \in 1..Len(s) : s[i] = ":" /\ \A j \in 1..(i - 1) : s[j] # ":"

WellFormedSloc(s) ==
    /\ Contains(s, ":")
    /\ LET i == ColonPos(s)
       IN  /\ i > 1
           /\ i < Len(s)
           /\ \A j \in (i + 1)..Len(s) : s[j] \in Digits
           /\ \A j \in 1..(i - 1) : s[j] \notin WhiteSpace

DSLLocation_parse(s) ==
    LET i == ColonPos(s)
    IN  [filename |-> SubSeq(s, 1, i - 1),
         line_no |-> ParseInt(SubSeq(s, i + 1, Len(s))),
         col |-> None]

\* self.matches(other): other may leave the finer-grained position out.
DSLLocation_matches(self, other) ==
    /\ self.filename = other.filename
    /\ self.line_no = other.line_no
    /\ (other.col = None \/ other.col = self.col)

DigitOf(n) == IF n = 1 THEN "1" ELSE "2"

DSLLocation_str(loc) ==
    loc.filename \o <<":", DigitOf(loc.line_no)>>
        \o (IF loc.col = None THEN <<>> ELSE <<":", DigitOf(loc.col[1])>>)

(***************************************************************************)
(* The debug-info model: properties, scopes and events.                    *)
(***************************************************************************)
IsScope(e) == e.kind = "Scope"
IsExprStart(e) == e.kind = "ExprStart"
IsExprDone(e) == e.kind = "ExprDone"

Binding(dsl_name, gen_name, line) ==
    [kind |-> "Binding", line_no |-> line, dsl_name |-> dsl_name,
     gen_name |-> gen_name]

ExprStart(id, repr, sloc, line) ==
    [kind |-> "ExprStart", line_no |-> line, expr_id |-> id,
     expr_repr |-> repr, dsl_sloc |-> sloc]

ExprDone(id, result_var, line) ==
    [kind |-> "ExprDone", line_no |-> line, expr_id |-> id,
     result_var |-> result_var]

Scope(events, first, last) ==
    [kind |-> "Scope", line_range |-> [first_line |-> first, last_line |-> last],
     events |-> events]

Property(name, sloc, events, first, last) ==
    [kind |-> "Scope", name |-> name, dsl_sloc |-> sloc,
     line_range |-> [first_line |-> first, last_line |-> last],
     events |-> events]

\* Property.subscopes: the top-level nested scopes of the property.
Subscopes(prop) == SelectSeq(prop.events, IsScope)

GenFile == <<"g", ".", "a">>

(***************************************************************************)
(* Bounded debug-info models.  Forests(L, n) are the event lists made of  *)
(* exactly n events (nested scopes and their events included) with leaves *)
(* from L; generated lines follow the order of the generated code.        *)
(***************************************************************************)
LocF1 == [filename |-> <<"f">>, line_no |-> 1, col |-> None]
LocF1C2 == [filename |-> <<"f">>, line_no |-> 1, col |-> Some(2)]
LocG2 == [filename |-> <<"g">>, line_no |-> 2, col |-> None]

GenX == <<"X", "_", "1">>
GenR == <<"R", "_", "1">>

SlocLeaves ==
    {Binding(<<"x">>, GenX, 0)}
        \cup {ExprStart(1, <<"x + 1">>, l, 0) :
                l \in {None, Some(LocF1), Some(LocF1C2), Some(LocG2)}}

PropLeaves == {Binding(<<"x">>, GenX, 0)}

RECURSIVE Forests(_, _)
RECURSIVE Trees(_, _)
Forests(L, n) ==
    IF n = 0 THEN {<<>>}
    ELSE UNION {{<<t>> \o r : t \in Trees(L, k), r \in Forests(L, n - k)} :
                  k \in 1..n}

Trees(L, k) ==
    (IF k = 1 THEN L ELSE {}) \cup {Scope(es, 0, 0) : es \in Forests(L, k - 1)}

\* Lists of at most maxp event lists holding at most budget events together.
RECURSIVE ForestLists(_, _, _)
ForestLists(L, maxp, budget) ==
    {<<>>} \cup
    (IF maxp = 0 THEN {}
     ELSE UNION {{<<f>> \o r : f \in Forests(L, k),
                               r \in ForestLists(L, maxp - 1, budget - k)} :
                   k \in 0..budget})

RECURSIVE Size(_)
RECURSIVE ForestSize(_)
Size(e) == IF IsScope(e) THEN 1 + ForestSize(e.events) ELSE 1

ForestSize(es) ==
    IF es = <<>> THEN 0 ELSE Size(Head(es)) + ForestSize(Tail(es))

RECURSIVE NumberEvents(_, _)
RECURSIVE NumberEvent(_, _)
NumberEvents(es, k) ==
    IF es = <<>> THEN <<>>
    ELSE <<NumberEvent(Head(es), k)>>
            \o NumberEvents(Tail(es), k + Size(Head(es)))

NumberEvent(e, k) ==
    IF IsScope(e)
    THEN Scope(NumberEvents(e.events, k + 1), 10 * k, 10 * (k + Size(e) - 1) + 9)
    ELSE [e EXCEPT !.line_no = 10 * k]

RECURSIVE MakeProperties(_, _, _)
MakeProperties(names, forests, k) ==
    IF forests = <<>> THEN <<>>
    ELSE LET n == ForestSize(Head(forests))
         IN  <<Property(Head(names), Some(LocF1),
                        NumberEvents(Head(forests), k + 1),
                        10 * k, 10 * (k + n) + 9)>>
                \o MakeProperties(Tail(names), Tail(forests), k + n + 1)

DebugInfo(names, forests) ==
    [filename |-> GenFile, properties |-> MakeProperties(names, forests, 1)]

PropNames == {<<"P">>, <<"p">>, <<"p", "P">>}

FixedNames == [i \in 1..MaxProps |-> IF i % 2 = 1 THEN <<"P">> ELSE <<"p", "P">>]

\* Models for requests by source location: every tree shape, fixed names.
DebugInfosSloc ==
    {DebugInfo(SubSeq(FixedNames, 1, Len(fl)), fl) :
        fl \in ForestLists(SlocLeaves, MaxProps, MaxNodes)}

\* Models for requests by name: every list of names, small trees.
DebugInfosProp ==
    UNION {{DebugInfo(names, fl) : names \in [1..Len(fl) -> PropNames]} :
             fl \in ForestLists(PropLeaves, MaxProps, MaxPropNodes)}

(***************************************************************************)
(* BreakCommand.                                                           *)
(***************************************************************************)
Result(out, bps) == [output |-> out, breakpoints |-> bps]

Location(file, line) == [file |-> file, line |-> line]

MinOf(S) == CHOOSE i \in S : \A j \in S : i <= j

break_on_property(d, qualname) ==
    LET lower_prop == Lower(qualname)
        props == d.properties
        found == {i \in 1..Len(props) : Lower(props[i].name) = lower_prop}
    IN  IF lower_prop = <<>>
        THEN Result(<<Line("Missing breakpoint specification", <<>>)>>, <<>>)
        ELSE IF found = {}
        THEN Result(<<Line("No such property: {}", <<qualname>>)>>, <<>>)
        ELSE LET prop == props[MinOf(found)]
                 scopes == Subscopes(prop)
             IN  IF scopes = <<>>
                 THEN Result(<<Line("{} has no code", <<prop.name>>)>>, <<>>)
                 ELSE Result(<<>>,
                             <<Location(d.filename,
                                        scopes[1].line_range.first_line)>>)

Match(prop, dsl_sloc, line_no) ==
    [prop |-> prop, dsl_sloc |-> dsl_sloc, line_no |-> line_no]

\* process_scope that does not enter the nested scopes.
RECURSIVE process_scope_flat(_, _, _)
process_scope_flat(prop, events, dsl_sloc) ==
    IF events = <<>> THEN <<>>
    ELSE LET e == Head(events)
         IN  (IF /\ IsExprStart(e)
                 /\ e.dsl_sloc # None
                 /\ DSLLocation_matches(e.dsl_sloc[1], dsl_sloc)
              THEN <<[prop |-> prop, dsl_sloc |-> e.dsl_sloc[1],
                      line_no |-> e.line_no]>>
              ELSE <<>>) \o process_scope_flat(prop, Tail(events), dsl_sloc)

\* process_scope, given the events of the scope that remain to be visited.
RECURSIVE process_scope(_, _, _)
process_scope(prop, events, dsl_sloc) ==
    IF events = <<>> THEN <<>>
    ELSE LET e == Head(events)
             here ==
                 IF IsScope(e)
                 THEN process_scope(prop, e.events, dsl_sloc)
                 ELSE IF /\ IsExprStart(e)
                         /\ e.dsl_sloc # None
                         /\ DSLLocation_matches(e.dsl_sloc[1], dsl_sloc)
                 THEN <<Match(prop, e.dsl_sloc[1], e.line_no)>>
                 ELSE <<>>
         IN  here \o process_scope(prop, Tail(events), dsl_sloc)

RECURSIVE AllMatches(_, _)
AllMatches(props, dsl_sloc) ==
    IF props = <<>> THEN <<>>
    ELSE process_scope(Head(props), Head(props).events, dsl_sloc)
            \o AllMatches(Tail(props), dsl_sloc)

MatchLine(m) ==
    Line("  In {}, {}", <<m.prop.name, DSLLocation_str(m.dsl_sloc)>>)

break_on_dsl_sloc(d, text) ==
    LET dsl_sloc == DSLLocation_parse(text)
        matches == AllMatches(d.properties, dsl_sloc)
    IN  IF matches = <<>>
        THEN Result(<<Line("No match for {}", <<DSLLocation_str(dsl_sloc)>>)>>,
                    <<>>)
        ELSE IF Len(matches) > 1
        THEN Result(<<Line("Multiple matches for {}:",
                           <<DSLLocation_str(dsl_sloc)>>)>>
                        \o [i \in 1..Len(matches) |-> MatchLine(matches[i])],
                    <<>>)
        ELSE Result(<<>>, <<Location(d.filename, matches[1].line_no)>>)

NameArgs == SeqsUpTo({"p", "P", " "}, MaxArgLen)

SlocArgs ==
    {pad \o f \o <<":", n>> : pad \in {<<>>, <<" ">>},
                             f \in {<<"f">>, <<"g">>}, n \in Digits}

BreakArgs == NameArgs \cup SlocArgs

\* The request is a name, or a well-formed "<file>:<line>": what
\* DSLLocation.parse does with anything else is not part of this code.
BreakCommand_invoke(arg) ==
    /\ pc = "idle"
    /\ LET spec == Strip(arg)
       IN  /\ Contains(spec, ":") => WellFormedSloc(spec)
           /\ LET r == IF Contains(spec, ":")
                       THEN break_on_dsl_sloc(dbg, spec)
                       ELSE break_on_property(dbg, spec)
              IN  /\ output' = r.output
                  /\ breakpoints' = r.breakpoints
    /\ cmd' = [name |-> "break", arg |-> arg]
    /\ untils' = <<>>
    /\ raised' = "none"
    /\ UNCHANGED <<dbg, state, cur_line, frame_vars, pc, pending>>

NoCmd == [name |-> "", arg |-> <<>>]

NoPending == [property |-> None, expr |-> None]

InitBreak ==
    /\ dbg \in DebugInfosSloc \cup DebugInfosProp
    /\ state = None
    /\ cur_line = 0
    /\ frame_vars = <<>>
    /\ pc = "idle"
    /\ cmd = NoCmd
    /\ output = <<>>
    /\ breakpoints = <<>>
    /\ untils = <<>>
    /\ raised = "none"
    /\ pending = NoPending

\* BreakCommand keeps nothing between two requests: a session of one request
\* on a fresh debugger shows every outcome of the command.
NextBreak == cmd = NoCmd /\ \E arg \in BreakArgs : BreakCommand_invoke(arg)

SpecBreak == InitBreak /\ [][NextBreak]_vars

(***************************************************************************)
(* State (langkit.gdb.state): the active property and, outermost first,   *)
(* the state of each enclosing scope.                                      *)
(***************************************************************************)
ExpressionEvaluation(start_event, status, result_var) ==
    [expr_id |-> start_event.expr_id, expr_repr |-> start_event.expr_repr,
     dsl_sloc |-> start_event.dsl_sloc, status |-> status,
     result_var |-> result_var]

is_started(e) == e.status = "started"
is_done(e) == e.status = "done"

ScopeState(scope, bindings, expressions) ==
    [scope |-> scope, bindings |-> bindings, expressions |-> expressions]

State(property, scopes) == [property |-> property, scopes |-> scopes]

(***************************************************************************)
(* Bounded states.  A property is a chain of MaxScopes nested scopes;     *)
(* each scope declares two bindings and evaluates MaxExprs expressions,   *)
(* the later ones nested in the earlier ones.  done[k] are the            *)
(* expressions (1..MaxExprs) of scope k that have an ExprDone event.      *)
(***************************************************************************)
DigitChar(n) ==
    CASE n = 1 -> "1" [] n = 2 -> "2" [] n = 3 -> "3" [] n = 4 -> "4"
      [] n = 5 -> "5" [] n = 6 -> "6" [] n = 7 -> "7" [] n = 8 -> "8"
      [] OTHER -> "9"

ExprId(k, j) == (k - 1) * MaxExprs + j

ReprOf(id) == <<"e", DigitChar(id)>>
ResultVarOf(id) == <<"R", "_", DigitChar(id)>>
GenNameOf(letter, k) == <<letter, "_", DigitChar(k)>>
SlocOf(id) == IF id % 2 = 1 THEN Some(LocF1) ELSE None

ScopeBindings(k) ==
    <<Binding(<<"x">>, GenNameOf("X", k), 0), Binding(<<"q">>, GenNameOf("Q", k), 0)>>

ScopeStarts(k) ==
    [j \in 1..MaxExprs |->
        ExprStart(ExprId(k, j), ReprOf(ExprId(k, j)), SlocOf(ExprId(k, j)), 0)]

\* The ExprDone events of scope k, innermost expression first.
RECURSIVE ScopeDones(_, _, _)
ScopeDones(k, ids, j) ==
    IF j = 0 THEN <<>>
    ELSE (IF j \in ids
          THEN <<ExprDone(ExprId(k, j), ResultVarOf(ExprId(k, j)), 0)>>
          ELSE <<>>) \o ScopeDones(k, ids, j - 1)

RECURSIVE Chain(_, _)
Chain(k, done) ==
    Scope(ScopeBindings(k) \o ScopeStarts(k)
              \o (IF k < MaxScopes THEN <<Chain(k + 1, done)>> ELSE <<>>)
              \o ScopeDones(k, done[k], MaxExprs),
          0, 0)

AllDone == [k \in 1..MaxScopes |-> 1..MaxExprs]

ChainDebugInfo(done) ==
    DebugInfo(<<<<"P">>, <<"p", "Q">>>>, <<<<Chain(1, done)>>, <<Chain(1, AllDone)>>>>)

ChainDebugInfos ==
    {ChainDebugInfo(done) : done \in [1..MaxScopes -> SUBSET (1..MaxExprs)]}

RECURSIVE ScopeAt(_, _)
ScopeAt(prop, k) ==
    IF k = 1 THEN Subscopes(prop)[1] ELSE Subscopes(ScopeAt(prop, k - 1))[1]

StartEvents(scope) == SelectSeq(scope.events, IsExprStart)
BindingEvents(scope) == SelectSeq(scope.events, LAMBDA e : e.kind = "Binding")

HasDone(scope, id) ==
    \E i \in 1..Len(scope.events) :
        IsExprDone(scope.events[i]) /\ scope.events[i].expr_id = id

DoneVar(scope, id) ==
    LET i == CHOOSE i \in 1..Len(scope.events) :
                 IsExprDone(scope.events[i]) /\ scope.events[i].expr_id = id
    IN  scope.events[i].result_var

Statuses == {"absent", "not_started", "started", "done"}

\* The status assignments a scope allows: done needs an ExprDone event.
StatusMaps(scope) ==
    {st \in [1..MaxExprs -> Statuses] :
        \A j \in 1..MaxExprs :
            st[j] = "done" => HasDone(scope, StartEvents(scope)[j].expr_id)}

Evaluations(scope, st) ==
    LET present == SelectSeq([j \in 1..MaxExprs |-> j], LAMBDA j : st[j] # "absent")
    IN  [i \in 1..Len(present) |->
            LET ev == StartEvents(scope)[present[i]]
            IN  ExpressionEvaluation(
                    ev, st[present[i]],
                    IF st[present[i]] = "done" THEN DoneVar(scope, ev.expr_id)
                    ELSE <<>>)]

\* The states of property prop: n enclosing scopes, nb bindings passed in
\* each, statuses sts[k] in scope k.
ChainState(prop, n, nb, sts) ==
    State(prop,
          [k \in 1..n |->
              ScopeState(ScopeAt(prop, k),
                         SubSeq(BindingEvents(ScopeAt(prop, k)), 1, nb[k]),
                         Evaluations(ScopeAt(prop, k), sts[k]))])

RECURSIVE StatusLists(_, _, _)
StatusLists(prop, n, k) ==
    IF k > n THEN {<<>>}
    ELSE {<<st>> \o rest : st \in StatusMaps(ScopeAt(prop, k)),
                           rest \in StatusLists(prop, n, k + 1)}

\* Every state of the properties of d, with nbs the binding counts allowed.
StatesOf(d, nbs) ==
    UNION {UNION {{ChainState(d.properties[p], n, nb, sts) :
                      nb \in [1..n -> nbs],
                      sts \in StatusLists(d.properties[p], n, 1)} :
                    n \in 0..MaxScopes} :
             p \in 1..Len(d.properties)}

\* States with at most one expression known in each scope.
SparseStatesOf(d) ==
    {s \in StatesOf(d, {1}) :
        \A k \in 1..Len(s.scopes) : Len(s.scopes[k].expressions) <= 1}

(***************************************************************************)
(* The selected frame: the values of its variables, by lower-case name.   *)
(***************************************************************************)
ellipsis_limit == 50

Pad(name, len) == [i \in 1..len |-> IF i <= Len(name) THEN name[i] ELSE "z"]

VarNames ==
    {Lower(GenNameOf(l, k)) : l \in {"X", "Q"}, k \in 1..MaxScopes}
        \cup {Lower(ResultVarOf(id)) : id \in 1..(MaxScopes * MaxExprs)}

\* Every variable holds a text of its own, of the given length or, for 0,
\* of a few characters.
FrameOf(len) ==
    [n \in VarNames |-> IF len = 0 THEN Pad(n, Len(n) + 1) ELSE Pad(n, len)]

ValueLengths == {0, ellipsis_limit, ellipsis_limit + 1}

\* frame.read_var: None stands for the error gdb raises for an unknown name.
read_var(frame, name) ==
    IF name \in DOMAIN frame THEN Some(frame[name]) ELSE None

(***************************************************************************)
(* StatePrinter.                                                           *)
(***************************************************************************)
StatePrinter(frame, st) ==
    [frame |-> frame, state |-> st, with_ellipsis |-> TRUE, with_locs |-> FALSE]

loc_image(self, var_name) ==
    IF self.with_locs THEN <<" (">> \o var_name \o <<")">> ELSE <<>>

\* value_image, given the value read: the text, cut after ellipsis_limit
\* characters when with_ellipsis is set.
value_image(self, value) ==
    IF self.with_ellipsis /\ Len(value) > ellipsis_limit
    THEN SubSeq(value, 1, ellipsis_limit) \o <<"...">>
    ELSE value

BlankLine == Line("", <<>>)

\* A print_info that never clears is_first.
print_info_bug(acc, line) ==
    [acc EXCEPT !.lines = acc.lines \o (IF acc.is_first THEN <<BlankLine>> ELSE <<>>)
                              \o <<line>>]

\* print_info: acc holds the lines printed and the is_first flag.
print_info(acc, line) ==
    [acc EXCEPT !.lines = acc.lines \o (IF acc.is_first THEN <<BlankLine>> ELSE <<>>)
                              \o <<line>>,
                !.is_first = FALSE]

\* One print_info call whose argument reads variable var_name first: when
\* the read fails the exception ends the command before anything is printed.
print_value(self, acc, fmt, name, var_name) ==
    LET value == read_var(self.frame, Lower(var_name))
    IN  IF acc.failed THEN acc
        ELSE IF value = None THEN [acc EXCEPT !.failed = TRUE]
        ELSE print_info(acc, Line(fmt, <<name, loc_image(self, var_name),
                                         value_image(self, value[1])>>))

RECURSIVE print_bindings(_, _, _)
print_bindings(self, acc, bindings) ==
    IF bindings = <<>> THEN acc
    ELSE print_bindings(
             self,
             print_value(self, acc, "{}{} = {}", Head(bindings).dsl_name,
                         Head(bindings).gen_name),
             Tail(bindings))

\* The loop over scope_state.expressions: acc also holds last_started.
RECURSIVE print_expressions(_, _, _)
print_expressions(self, acc, expressions) ==
    IF expressions = <<>> THEN acc
    ELSE LET e == Head(expressions)
             next ==
                 IF is_started(e) THEN [acc EXCEPT !.last_started = Some(e)]
                 ELSE IF is_done(e)
                 THEN print_value(self, acc, "{}{} -> {}", e.expr_repr,
                                  e.result_var)
                 ELSE acc
         IN  print_expressions(self, next, Tail(expressions))

print_current(acc) ==
    IF acc.failed \/ acc.last_started = None THEN acc
    ELSE LET e == acc.last_started[1]
             shown == print_info(acc, Line("Currently evaluating {}",
                                           <<e.expr_repr>>))
         IN  IF e.dsl_sloc # None
             THEN print_info(shown, Line("from {}",
                                         <<DSLLocation_str(e.dsl_sloc[1])>>))
             ELSE shown

\* The body of the loop of run for one scope state.
print_scope(self, scope_state) ==
    LET acc0 == [lines |-> <<>>, is_first |-> TRUE, failed |-> FALSE,
                 last_started |-> None]
        acc1 == print_bindings(self, acc0, scope_state.bindings)
        acc2 == print_expressions(self, acc1, scope_state.expressions)
    IN  print_current(acc2)

RECURSIVE print_scopes(_, _, _)
print_scopes(self, out, scopes) ==
    IF scopes = <<>> \/ out.failed THEN out
    ELSE LET acc == print_scope(self, Head(scopes))
         IN  print_scopes(self,
                          [lines |-> out.lines \o acc.lines, failed |-> acc.failed],
                          Tail(scopes))

OptionalLoc(sloc) == IF sloc = None THEN <<"None">> ELSE DSLLocation_str(sloc[1])

StatePrinter_run(self) ==
    IF self.state = None
    THEN [lines |-> <<Line("Selected frame is not in a property.", <<>>)>>,
          failed |-> FALSE]
    ELSE LET st == self.state[1]
         IN  print_scopes(
                 self,
                 [lines |-> <<Line("Running {}", <<st.property.name>>),
                              Line("from {}", <<OptionalLoc(st.property.dsl_sloc)>>)>>,
                  failed |-> FALSE],
                 st.scopes)

(***************************************************************************)
(* StateCommand.                                                           *)
(***************************************************************************)
\* A loop over the flag characters that skips the characters that are no
\* flag.
RECURSIVE set_flags_skip(_, _)
set_flags_skip(printer, flags) ==
    IF flags = <<>> THEN [printer |-> printer, invalid |-> None]
    ELSE IF Head(flags) = "f"
    THEN set_flags_skip([printer EXCEPT !.with_ellipsis = FALSE], Tail(flags))
    ELSE IF Head(flags) = "s"
    THEN set_flags_skip([printer EXCEPT !.with_locs = TRUE], Tail(flags))
    ELSE set_flags_skip(printer, Tail(flags))

\* The loop over the flag characters: the printer once every flag is set,
\* or the first character that is no flag.
RECURSIVE set_flags(_, _)
set_flags(printer, flags) ==
    IF flags = <<>> THEN [printer |-> printer, invalid |-> None]
    ELSE IF Head(flags) = "f"
    THEN set_flags([printer EXCEPT !.with_ellipsis = FALSE], Tail(flags))
    ELSE IF Head(flags) = "s"
    THEN set_flags([printer EXCEPT !.with_locs = TRUE], Tail(flags))
    ELSE [printer |-> printer, invalid |-> Some(Head(flags))]

StateCommand_result(frame, st, arg) ==
    LET printer == StatePrinter(frame, st)
        parsed == set_flags(printer, Tail(arg))
    IN  IF arg # <<>> /\ Head(arg) # "/"
        THEN [lines |-> <<Line("Invalid argument", <<>>)>>, failed |-> FALSE]
        ELSE IF arg # <<>> /\ parsed.invalid # None
        THEN [lines |-> <<Line("Invalid flag: {}",
                               <<<<"'", parsed.invalid[1], "'">>>>)>>,
              failed |-> FALSE]
        ELSE StatePrinter_run(IF arg = <<>> THEN printer ELSE parsed.printer)

StateCommand_invoke(arg) ==
    /\ pc = "idle"
    /\ LET r == StateCommand_result(frame_vars, state, arg)
       IN  /\ output' = r.lines
           /\ raised' = IF r.failed THEN "gdb.error" ELSE "none"
    /\ cmd' = [name |-> "state", arg |-> arg]
    /\ breakpoints' = <<>>
    /\ untils' = <<>>
    /\ UNCHANGED <<dbg, state, cur_line, frame_vars, pc, pending>>

StateArgs == SeqsUpTo({"/", "f", "s", "x"}, MaxArgLen)

InitState ==
    /\ dbg = ChainDebugInfo(AllDone)
    /\ state \in {None} \cup {Some(s) : s \in StatesOf(dbg, {0, 2})}
    /\ cur_line = 0
    /\ frame_vars \in {FrameOf(0), FrameOf(ellipsis_limit + 1)}
    /\ pc = "idle"
    /\ cmd = NoCmd
    /\ output = <<>>
    /\ breakpoints = <<>>
    /\ untils = <<>>
    /\ raised = "none"
    /\ pending = NoPending

\* StatePrinter is built anew by every request: a session of one request
\* shows every outcome of the command.
NextState == cmd = NoCmd /\ \E arg \in StateArgs : StateCommand_invoke(arg)

SpecState == InitState /\ [][NextState]_vars

(***************************************************************************)
(* OutCommand.                                                             *)
(***************************************************************************)
RECURSIVE last_started(_)
last_started(expressions) ==
    IF expressions = <<>> THEN None
    ELSE IF is_started(expressions[Len(expressions)])
    THEN Some(expressions[Len(expressions)])
    ELSE last_started(SubSeq(expressions, 1, Len(expressions) - 1))

\* A lookup_current_expr that visits the outermost scope first.
RECURSIVE lookup_current_expr_outer(_)
lookup_current_expr_outer(scopes) ==
    IF scopes = <<>> THEN None
    ELSE LET e == last_started(Head(scopes).expressions)
         IN  IF e # None
             THEN Some([scope_state |-> Head(scopes), expr |-> e[1]])
             ELSE lookup_current_expr_outer(Tail(scopes))

\* A lookup_current_expr that takes the last expression of the innermost
\* scope that knows one, whatever its status.
RECURSIVE lookup_current_expr_any(_)
lookup_current_expr_any(scopes) ==
    IF scopes = <<>> THEN None
    ELSE LET scope_state == scopes[Len(scopes)]
         IN  IF scope_state.expressions # <<>>
             THEN Some([scope_state |-> scope_state,
                        expr |-> scope_state.expressions[Len(scope_state.expressions)]])
             ELSE lookup_current_expr_any(SubSeq(scopes, 1, Len(scopes) - 1))

\* lookup_current_expr on the scope states that remain to be visited, the
\* innermost one last: None stands for (None, None).
RECURSIVE lookup_current_expr(_)
lookup_current_expr(scopes) ==
    IF scopes = <<>> THEN None
    ELSE LET scope_state == scopes[Len(scopes)]
             e == last_started(scope_state.expressions)
         IN  IF e # None
             THEN Some([scope_state |-> scope_state, expr |-> e[1]])
             ELSE lookup_current_expr(SubSeq(scopes, 1, Len(scopes) - 1))

\* A loop that takes the first event of expr_id, of whatever kind.
RECURSIVE find_until_first(_, _, _)
find_until_first(events, expr_id, until_line_no) ==
    IF events = <<>> THEN until_line_no
    ELSE LET e == Head(events)
         IN  IF ~IsScope(e) /\ e.kind # "Binding" /\ e.expr_id = expr_id
             THEN Some(e.line_no)
             ELSE find_until_first(Tail(events), expr_id, until_line_no)

\* The loop that looks for the end of the evaluation of expr_id.
RECURSIVE find_until_line_no(_, _, _)
find_until_line_no(events, expr_id, until_line_no) ==
    IF events = <<>> THEN until_line_no
    ELSE LET e == Head(events)
         IN  find_until_line_no(
                 Tail(events), expr_id,
                 IF IsExprDone(e) /\ e.expr_id = expr_id
                 THEN Some(e.line_no) ELSE until_line_no)

RECURSIVE first_with_id(_, _)
first_with_id(expressions, expr_id) ==
    IF expressions = <<>> THEN None
    ELSE IF Head(expressions).expr_id = expr_id THEN Some(Head(expressions))
    ELSE first_with_id(Tail(expressions), expr_id)

RECURSIVE lookup_expr(_, _)
lookup_expr(scopes, expr_id) ==
    IF scopes = <<>> THEN None
    ELSE LET e == first_with_id(Head(scopes).expressions, expr_id)
         IN  IF e # None THEN e ELSE lookup_expr(Tail(scopes), expr_id)

error(msg) == Line("ERROR: {}: something went wrong...", <<<<msg>>>>)

\* OutCommand.invoke up to gdb.execute: what it prints, the 'until' request
\* it issues and the exception it ends with.
OutCommand_before(st, arg) ==
    LET stop(lines) == [output |-> lines, until |-> None, expr |-> None,
                        raised |-> "none"]
    IN  IF arg # <<>>
        THEN stop(<<Line("This command takes no argument", <<>>)>>)
        ELSE IF st = None
        THEN [output |-> <<>>, until |-> None, expr |-> None,
              raised |-> "AttributeError"]
        ELSE LET found == lookup_current_expr(st[1].scopes)
             IN  IF found = None
                 THEN stop(<<Line("Not evaluating any expression currently", <<>>)>>)
                 ELSE LET until_line_no ==
                              find_until_line_no(found[1].scope_state.scope.events,
                                                 found[1].expr.expr_id, None)
                      IN  IF until_line_no = None
                          THEN stop(<<Line("ERROR: cannot find the end of evaluation for expression {}. Code generation may have a bug.",
                                           <<found[1].expr.expr_repr>>)>>)
                          ELSE [output |-> <<>>, until |-> until_line_no,
                                expr |-> Some(found[1].expr), raised |-> "none"]

\* OutCommand.invoke once gdb.execute has returned.
OutCommand_after(frame, old_property, current_expr, new_state) ==
    LET ends(lines, exc) == [output |-> lines, raised |-> exc]
    IN  IF new_state = None
        THEN ends(<<>>, "AttributeError")
        ELSE LET new_expr == lookup_expr(new_state[1].scopes, current_expr.expr_id)
             IN  IF new_state[1].property # old_property
                 THEN ends(<<error("we landed in another property")>>, "none")
                 ELSE IF new_expr = None
                 THEN ends(<<error("cannot find back the same expression")>>, "none")
                 ELSE IF ~is_done(new_expr[1])
                 THEN ends(<<error("the expression is not evaluated yet")>>, "none")
                 ELSE LET value == read_var(frame, Lower(new_expr[1].result_var))
                      IN  IF value = None THEN ends(<<>>, "gdb.error")
                          ELSE ends(<<Line("{} evaluated to: {}",
                                           <<current_expr.expr_repr, value[1]>>)>>,
                                    "none")

OutCommand_invoke(arg) ==
    /\ pc = "idle"
    /\ LET r == OutCommand_before(state, arg)
       IN  /\ output' = r.output
           /\ raised' = r.raised
           /\ untils' = r.until
           /\ pc' = IF r.until # None THEN "running" ELSE "idle"
           /\ pending' = IF r.until # None
                         THEN [property |-> Some(state[1].property), expr |-> r.expr]
                         ELSE NoPending
    /\ cmd' = [name |-> "out", arg |-> arg]
    /\ breakpoints' = <<>>
    /\ UNCHANGED <<dbg, state, cur_line, frame_vars>>

\* The target stops, at the requested line or anywhere else, and
\* gdb.execute returns: the rest of OutCommand.invoke runs.
TargetStops(new_line, new_state) ==
    /\ pc = "running"
    /\ cur_line' = new_line
    /\ state' = new_state
    /\ LET r == OutCommand_after(frame_vars, pending.property[1],
                                 pending.expr[1], new_state)
       IN  /\ output' = r.output
           /\ raised' = r.raised
    /\ pc' = "idle"
    /\ UNCHANGED <<dbg, frame_vars, cmd, breakpoints, untils, pending>>

OutArgs == {<<>>, <<" ">>, <<"x">>, <<"/", "f">>}

\* Where the target may stop after a resume, for each debug-info model.
StopStates ==
    [d \in ChainDebugInfos |-> {None} \cup {Some(t) : t \in SparseStatesOf(d)}]

InitOut ==
    /\ dbg \in ChainDebugInfos
    /\ state \in {None} \cup {Some(s) : s \in StatesOf(dbg, {1})}
    /\ cur_line = 0
    /\ frame_vars = FrameOf(0)
    /\ pc = "idle"
    /\ cmd = NoCmd
    /\ output = <<>>
    /\ breakpoints = <<>>
    /\ untils = <<>>
    /\ raised = "none"
    /\ pending = NoPending

NextOut ==
    \/ \E arg \in OutArgs : OutCommand_invoke(arg)
    \/ \E s \in StopStates[dbg] : TargetStops(0, s)

SpecOut == InitOut /\ [][NextOut]_vars

(***************************************************************************)
(* The end-to-end scenario: property P, one scope holding                 *)
(* Binding(x, "X_1"), ExprStart(1, "x + 1", line 10) and                   *)
(* ExprDone(1, line 12, "R_1").                                            *)
(***************************************************************************)
ScenarioScope ==
    Scope(<<Binding(<<"x">>, GenX, 9),
            ExprStart(1, <<"x + 1">>, None, 10),
            ExprDone(1, GenR, 12)>>,
          9, 13)

ScenarioDebugInfo ==
    [filename |-> GenFile,
     properties |-> <<Property(<<"P">>, Some(LocF1), <<ScenarioScope>>, 8, 14)>>]

ScenarioLines == 7..13

InLines(scope, l) ==
    scope.line_range.first_line <= l /\ l <= scope.line_range.last_line

\* The state of one scope at generated line l: the events up to l have
\* been passed.
decode_scope(scope, l) ==
    LET passed(e) == e.line_no <= l
        starts == StartEvents(scope)
    IN  ScopeState(
            scope,
            SelectSeq(BindingEvents(scope), passed),
            [i \in 1..Len(starts) |->
                LET done == SelectSeq(scope.events,
                                      LAMBDA e : /\ IsExprDone(e)
                                                 /\ e.expr_id = starts[i].expr_id
                                                 /\ passed(e))
                IN  IF done # <<>>
                    THEN ExpressionEvaluation(starts[i], "done", done[1].result_var)
                    ELSE ExpressionEvaluation(
                             starts[i],
                             IF passed(starts[i]) THEN "started" ELSE "not_started",
                             <<>>)])

\* The states of the scopes of events that enclose line l, outermost first.
RECURSIVE decode_scopes(_, _)
decode_scopes(events, l) ==
    LET inner == SelectSeq(events, LAMBDA e : IsScope(e) /\ InLines(e, l))
    IN  IF inner = <<>> THEN <<>>
        ELSE <<decode_scope(inner[1], l)>> \o decode_scopes(inner[1].events, l)

\* context.decode_state: None outside every property.
decode_state(d, l) ==
    LET props == SelectSeq(d.properties, LAMBDA p : InLines(p, l))
    IN  IF props = <<>> THEN None
        ELSE Some(State(props[1], decode_scopes(props[1].events, l)))

ScenarioFrame(len) ==
    [n \in {Lower(GenX), Lower(GenR)} |->
        IF len = 0 THEN Pad(n, Len(n) + 1) ELSE Pad(n, len)]

Init ==
    /\ dbg = ScenarioDebugInfo
    /\ cur_line \in ScenarioLines
    /\ state = decode_state(dbg, cur_line)
    /\ frame_vars \in {ScenarioFrame(len) : len \in ValueLengths}
    /\ pc = "idle"
    /\ cmd = NoCmd
    /\ output = <<>>
    /\ breakpoints = <<>>
    /\ untils = <<>>
    /\ raised = "none"
    /\ pending = NoPending

Next ==
    \/ \E arg \in StateArgs : StateCommand_invoke(arg)
    \/ \E arg \in BreakArgs : BreakCommand_invoke(arg)
    \/ \E arg \in OutArgs : OutCommand_invoke(arg)
    \/ \E l \in ScenarioLines : TargetStops(l, decode_state(dbg, l))

Spec == Init /\ [][Next]_vars

(***************************************************************************)
(* Properties of BreakCommand (SpecBreak).                                 *)
(***************************************************************************)
SameLetter(c, d) ==
    c = d \/ {c, d} \in {{"p", "P"}, {"q", "Q"}, {"x", "X"}, {"r", "R"}, {"f", "F"}}

EqualIgnoringCase(a, b) ==
    Len(a) = Len(b) /\ \A i \in 1..Len(a) : SameLetter(a[i], b[i])

IsBlank(c) == c = " " \/ c = "\t"

\* The request without the blanks around it.
Trimmed(a) ==
    IF \A i \in 1..Len(a) : IsBlank(a[i]) THEN <<>>
    ELSE LET first == CHOOSE i \in 1..Len(a) :
                          ~IsBlank(a[i]) /\ \A j \in 1..(i - 1) : IsBlank(a[j])
             last == CHOOSE i \in 1..Len(a) :
                         ~IsBlank(a[i]) /\ \A j \in (i + 1)..Len(a) : IsBlank(a[j])
         IN  SubSeq(a, first, last)

NameRequest == cmd.name = "break" /\ \A i \in 1..Len(cmd.arg) : cmd.arg[i] # ":"

NamedProps ==
    {i \in 1..Len(dbg.properties) :
        EqualIgnoringCase(dbg.properties[i].name, Trimmed(cmd.arg))}

InnerScopes(prop) == {i \in 1..Len(prop.events) : prop.events[i].kind = "Scope"}

FirstInner(prop) ==
    prop.events[CHOOSE i \in InnerScopes(prop) : \A j \in InnerScopes(prop) : i <= j]

\* C6: a request by name that matches exactly one property with an inner
\* scope creates exactly one breakpoint, at the first line of the first inner
\* scope of that property; a name that matches no property creates none and
\* prints "No such property"; a matched property without inner scope creates
\* none and prints "has no code"; an empty request creates none.
C6_BreakOnProperty ==
    NameRequest =>
        LET q == Trimmed(cmd.arg)
            first == dbg.properties[CHOOSE i \in NamedProps :
                                        \A j \in NamedProps : i <= j]
        IN  /\ q = <<>> => breakpoints = <<>>
            /\ (q # <<>> /\ NamedProps = {}) =>
                   /\ breakpoints = <<>>
                   /\ output = <<Line("No such property: {}", <<q>>)>>
            /\ (q # <<>> /\ NamedProps # {} /\ InnerScopes(first) = {}) =>
                   /\ breakpoints = <<>>
                   /\ output = <<Line("{} has no code", <<first.name>>)>>
            /\ (q # <<>> /\ Cardinality(NamedProps) = 1 /\ InnerScopes(first) # {}) =>
                   /\ breakpoints =
                          <<Location(dbg.filename,
                                     FirstInner(first).line_range.first_line)>>
                   /\ output = <<>>

\* A name in another case, between blanks, resolved to the second property,
\* whose first event is no scope.
C6_Witness ==
    /\ NameRequest
    /\ Len(cmd.arg) > Len(Trimmed(cmd.arg))
    /\ NamedProps = {2}
    /\ dbg.properties[2].name # Trimmed(cmd.arg)
    /\ Len(dbg.properties[2].events) = 2
    /\ dbg.properties[2].events[1].kind # "Scope"
    /\ Len(breakpoints) = 1

SlocRequest == cmd.name = "break" /\ cmd.arg \in SlocArgs

RequestFile ==
    CHOOSE f \in {<<"f">>, <<"g">>} :
        \E pad \in {<<>>, <<" ">>}, n \in Digits : cmd.arg = pad \o f \o <<":", n>>

RequestLine ==
    CHOOSE n \in {1, 2} :
        \E pad \in {<<>>, <<" ">>}, f \in {<<"f">>, <<"g">>} :
            cmd.arg = pad \o f \o <<":", IF n = 1 THEN "1" ELSE "2">>

\* Every event below events, at any depth.
RECURSIVE EventsBelow(_)
EventsBelow(events) ==
    UNION {IF events[i].kind = "Scope"
           THEN EventsBelow(events[i].events) ELSE {events[i]} :
             i \in 1..Len(events)}

\* The ExprStart events of property i located at the requested file and line.
Located(i) ==
    {e \in EventsBelow(dbg.properties[i].events) :
        /\ e.kind = "ExprStart"
        /\ e.dsl_sloc # None
        /\ e.dsl_sloc[1].filename = RequestFile
        /\ e.dsl_sloc[1].line_no = RequestLine}

LocatedAll == {<<i, e>> : i \in 1..Len(dbg.properties), e \in UNION {Located(j) : j \in 1..Len(dbg.properties)}}

LocatedPairs == {m \in LocatedAll : m[2] \in Located(m[1])}

\* C7: a request by location matches every ExprStart event, at any depth of
\* any property, located there.  One match creates one breakpoint at the
\* event's generated line; no match creates none and prints "No match for";
\* several matches create none and print "Multiple matches for" and then one
\* line for each match.
C7_BreakOnDslSloc ==
    SlocRequest =>
        /\ Cardinality(LocatedPairs) = 1 =>
               /\ \E m \in LocatedPairs :
                      breakpoints = <<Location(dbg.filename, m[2].line_no)>>
               /\ output = <<>>
        /\ LocatedPairs = {} =>
               /\ breakpoints = <<>>
               /\ Len(output) = 1
               /\ output[1].fmt = "No match for {}"
               /\ output[1].args = <<RequestFile \o <<":", DigitOf(RequestLine)>>>>
        /\ Cardinality(LocatedPairs) > 1 =>
               /\ breakpoints = <<>>
               /\ Len(output) = 1 + Cardinality(LocatedPairs)
               /\ output[1].fmt = "Multiple matches for {}:"
               /\ \A i \in 2..Len(output) : output[i].fmt = "  In {}, {}"
               /\ \A m \in LocatedPairs :
                      \E i \in 2..Len(output) :
                          /\ output[i].args[1] = dbg.properties[m[1]].name
                          /\ output[i].args[2] = DSLLocation_str(m[2].dsl_sloc[1])

\* The only match lies in a scope nested in a scope of the second property.
C7_Witness ==
    /\ SlocRequest
    /\ Cardinality(LocatedPairs) = 1
    /\ Len(breakpoints) = 1
    /\ Len(dbg.properties) = 2
    /\ \E e \in Located(2) :
           \E i \in 1..Len(dbg.properties[2].events) :
               LET s == dbg.properties[2].events[i]
               IN  /\ s.kind = "Scope"
                   /\ \E j \in 1..Len(s.events) :
                          /\ s.events[j].kind = "Scope"
                          /\ e \in EventsBelow(s.events[j].events)

(***************************************************************************)
(* Properties of StatePrinter (SpecState).                                 *)
(***************************************************************************)
ValidStateArg(a) ==
    a = <<>> \/ (a[1] = "/" /\ \A i \in 2..Len(a) : a[i] \in {"f", "s"})

StatePrinted == cmd.name = "state" /\ ValidStateArg(cmd.arg) /\ state # None

\* What a line is about: its format and the name or expression it shows.
Subject(l) == <<l.fmt, IF l.args = <<>> THEN <<>> ELSE l.args[1]>>

Started(ss) == SelectSeq(ss.expressions, LAMBDA e : e.status = "started")
Completed(ss) == SelectSeq(ss.expressions, LAMBDA e : e.status = "done")

\* The items of a scope: bindings, completed expressions, then the
\* expression in progress and, when known, its location.
Items(ss) ==
    [i \in 1..Len(ss.bindings) |-> <<"{}{} = {}", ss.bindings[i].dsl_name>>]
        \o [i \in 1..Len(Completed(ss)) |-> <<"{}{} -> {}", Completed(ss)[i].expr_repr>>]
        \o (IF Started(ss) = <<>> THEN <<>>
            ELSE LET e == Started(ss)[Len(Started(ss))]
                 IN  <<<<"Currently evaluating {}", e.expr_repr>>>>
                         \o (IF e.dsl_sloc = None THEN <<>>
                             ELSE <<<<"from {}", DSLLocation_str(e.dsl_sloc[1])>>>>))

RECURSIVE ScopesShown(_)
ScopesShown(scopes) ==
    IF scopes = <<>> THEN <<>>
    ELSE (IF Items(Head(scopes)) = <<>> THEN <<>>
          ELSE <<<<"", <<>>>>>> \o Items(Head(scopes)))
             \o ScopesShown(Tail(scopes))

\* C10: after the two header lines, each scope with an item shows one blank
\* line and then its items (bindings, completed expressions, the expression
\* in progress last); a scope without item shows nothing.
C10_ScopeLayout ==
    StatePrinted =>
        /\ Len(output) >= 2
        /\ [i \in 1..(Len(output) - 2) |-> Subject(output[i + 2])]
               = ScopesShown(state[1].scopes)

\* An outer scope without item, and an inner scope that shows bindings, a
\* completed expression and the expression in progress.
C10_Witness ==
    /\ StatePrinted
    /\ Len(state[1].scopes) = 2
    /\ Items(state[1].scopes[1]) = <<>>
    /\ state[1].scopes[2].bindings # <<>>
    /\ Completed(state[1].scopes[2]) # <<>>
    /\ Started(state[1].scopes[2]) # <<>>
    /\ Cardinality({i \in 1..Len(output) : output[i] = BlankLine}) = 1

(***************************************************************************)
(* Properties of OutCommand (SpecOut).                                     *)
(***************************************************************************)
NotEvaluating == <<Line("Not evaluating any expression currently", <<>>)>>

\* An `out` without argument has returned without a resume request.
OutReturnedAtOnce ==
    cmd.name = "out" /\ cmd.arg = <<>> /\ pc = "idle" /\ untils = <<>>

\* The target has stopped after the resume request of `out`.
OutResumed == cmd.name = "out" /\ pc = "idle" /\ untils # <<>>

Diagnostics ==
    {error("we landed in another property"),
     error("cannot find back the same expression"),
     error("the expression is not evaluated yet")}

\* C1: `out` without argument on a null State prints "Not evaluating any
\* expression currently", issues no resume request and ends normally.
C1_NullStateReported ==
    (OutReturnedAtOnce /\ state = None) =>
        output = NotEvaluating /\ raised = "none"

\* C2: wherever the target stops after the resume request, `out` ends
\* normally; at a stop in no property (null State) it prints one of the three
\* consistency diagnostics.
C2_StopNeverFails ==
    OutResumed =>
        /\ raised = "none"
        /\ state = None => (Len(output) = 1 /\ output[1] \in Diagnostics)

SameProperty == state # None /\ Some(state[1].property) = pending.property

\* The expressions of the new state that carry the id of the expression
\* `out` selected.
SameId ==
    IF state = None THEN {}
    ELSE {e \in UNION {{state[1].scopes[k].expressions[i] :
                          i \in 1..Len(state[1].scopes[k].expressions)} :
                         k \in 1..Len(state[1].scopes)} :
            e.expr_id = pending.expr[1].expr_id}

NowDone == \E e \in SameId : e.status = "done"

Evaluated == Len(output) = 1 /\ output[1].fmt = "{} evaluated to: {}"

\* C3: after the resume the value line is printed exactly when the property
\* is the same, the expression is found again and it is done; otherwise the
\* diagnostic of the first check that fails is printed, and nothing else.
C3_ChecksDecide ==
    OutResumed =>
        /\ Evaluated <=> (SameProperty /\ SameId # {} /\ NowDone)
        /\ ~SameProperty => output = <<error("we landed in another property")>>
        /\ (SameProperty /\ SameId = {}) =>
               output = <<error("cannot find back the same expression")>>
        /\ (SameProperty /\ SameId # {} /\ ~NowDone) =>
               output = <<error("the expression is not evaluated yet")>>
        /\ Cardinality(Diagnostics) = 3

\* The same statement for the stops inside a property.
C3_ChecksDecideInProperty == (OutResumed /\ state # None) => C3_ChecksDecide

\* The scope states that hold a started expression.
Evaluating(st) ==
    {k \in 1..Len(st.scopes) :
        \E i \in 1..Len(st.scopes[k].expressions) :
            st.scopes[k].expressions[i].status = "started"}

Innermost(st) == CHOOSE k \in Evaluating(st) : \A j \in Evaluating(st) : j <= k

\* The expression in progress: the last started one of the innermost scope
\* that has one.
InProgress(st) ==
    LET es == st.scopes[Innermost(st)].expressions
        i == CHOOSE i \in 1..Len(es) :
                 /\ es[i].status = "started"
                 /\ \A j \in (i + 1)..Len(es) : es[j].status # "started"
    IN  es[i]

\* The lines of the ExprDone events for id in the scope of scope state k.
DoneLines(st, k, id) ==
    {st.scopes[k].scope.events[i].line_no :
        i \in {j \in 1..Len(st.scopes[k].scope.events) :
                 /\ st.scopes[k].scope.events[j].kind = "ExprDone"
                 /\ st.scopes[k].scope.events[j].expr_id = id}}

\* `out` without argument has just run on the current, non-null State.
OutJustRan ==
    /\ cmd.name = "out" /\ cmd.arg = <<>> /\ state # None
    /\ pc = "running" \/ untils = <<>>

\* C4: the resume request of `out` targets the line of an ExprDone event of
\* the expression in progress, taken from the events of that expression's
\* scope; without such an event the code-generation diagnostic is printed and
\* nothing is resumed; there is never more than one request.
C4_ResumeTarget ==
    /\ Len(untils) <= 1
    /\ OutJustRan =>
        LET st == state[1]
            lines == DoneLines(st, Innermost(st), InProgress(st).expr_id)
        IN  /\ untils # <<>> =>
                   /\ Evaluating(st) # {}
                   /\ untils[1] \in lines
                   /\ pending.expr = Some(InProgress(st))
            /\ (Evaluating(st) # {} /\ lines = {}) =>
                   /\ untils = <<>>
                   /\ Len(output) = 1
                   /\ output[1].fmt = "ERROR: cannot find the end of evaluation for expression {}. Code generation may have a bug."
            /\ (Evaluating(st) # {} /\ lines # {}) => pc = "running"

\* Both scopes hold a started expression, the inner one two of them.
C4_Witness ==
    /\ OutJustRan
    /\ pc = "running"
    /\ Len(state[1].scopes) = 2
    /\ Evaluating(state[1]) = {1, 2}
    /\ Len(Started(state[1].scopes[2])) = 2

\* C5: `out` without argument on a State without started expression prints
\* the fixed message, resumes nothing, creates no breakpoint and changes
\* neither the State nor the debug-info model, each time it is invoked.
C5_NothingInProgress ==
    [][(/\ pc = "idle"
        /\ state # None
        /\ Evaluating(state[1]) = {}
        /\ cmd'.name = "out"
        /\ cmd'.arg = <<>>)
       => (/\ output' = NotEvaluating
           /\ untils' = <<>>
           /\ breakpoints' = <<>>
           /\ raised' = "none"
           /\ pc' = "idle"
           /\ state' = state
           /\ dbg' = dbg
           /\ frame_vars' = frame_vars)]_vars

\* The message is printed on a State whose expressions are done or not
\* started.
C5_Witness ==
    /\ OutReturnedAtOnce
    /\ output = NotEvaluating
    /\ state # None
    /\ Len(state[1].scopes) = 2
    /\ Completed(state[1].scopes[2]) # <<>>
    /\ Evaluating(state[1]) = {}

(***************************************************************************)
(* Properties of the three commands in the end-to-end scenario (Spec).     *)
(***************************************************************************)
InvalidStateArg(a) ==
    a # <<>> /\ (a[1] # "/" \/ \E i \in 2..Len(a) : a[i] \notin {"f", "s"})

FirstInvalidFlag(a) ==
    a[CHOOSE i \in 2..Len(a) :
          a[i] \notin {"f", "s"} /\ \A j \in 2..(i - 1) : a[j] \in {"f", "s"}]

Misused(c) ==
    \/ c.name = "state" /\ InvalidStateArg(c.arg)
    \/ c.name = "out" /\ c.arg # <<>>
    \/ c.name = "break" /\ \A i \in 1..Len(c.arg) : IsBlank(c.arg[i])

MisuseMessage(c) ==
    IF c.name = "out" THEN Line("This command takes no argument", <<>>)
    ELSE IF c.name = "break" THEN Line("Missing breakpoint specification", <<>>)
    ELSE IF c.arg[1] # "/" THEN Line("Invalid argument", <<>>)
    ELSE Line("Invalid flag: {}", <<<<"'", FirstInvalidFlag(c.arg), "'">>>>)

\* C8: a command given invalid input prints its message and nothing else,
\* resumes nothing, creates no breakpoint, ends normally and leaves the
\* target, the State and the debug-info model as they were.
C8_MisuseIsHarmless ==
    [][(pc = "idle" /\ Misused(cmd'))
       => (/\ output' = <<MisuseMessage(cmd')>>
           /\ untils' = <<>>
           /\ breakpoints' = <<>>
           /\ raised' = "none"
           /\ pc' = "idle"
           /\ state' = state
           /\ cur_line' = cur_line
           /\ frame_vars' = frame_vars
           /\ dbg' = dbg)]_vars

\* `state/fx`, a valid flag before an invalid one, while an expression is in
\* progress.
C8_Witness ==
    /\ cmd = [name |-> "state", arg |-> <<"/", "f", "x">>]
    /\ output = <<Line("Invalid flag: {}", <<<<"'", "x", "'">>>>)>>
    /\ cur_line = 11
    /\ state # None

StateAtLine11 == cmd.name = "state" /\ cmd.arg = <<>> /\ cur_line = 11

OutStoppedAtLine12 == OutResumed /\ cur_line = 12

EvaluatedLine ==
    Line("{} evaluated to: {}", <<<<"x + 1">>, frame_vars[Lower(GenR)]>>)

\* The scenario as first stated: `state` prints 'x = ...', then a blank
\* line, then 'Currently evaluating x + 1'; `out` resumes until line 12 and
\* prints the value of R_1.
C9_ScenarioAsStated ==
    /\ StateAtLine11 =>
           \E i, j, k \in 1..Len(output) :
               /\ i < j /\ j < k
               /\ output[i].fmt = "{}{} = {}" /\ output[i].args[1] = <<"x">>
               /\ output[j] = BlankLine
               /\ output[k] = Line("Currently evaluating {}", <<<<"x + 1">>>>)
    /\ (cmd.name = "out" /\ pc = "running" /\ cur_line = 11) => untils = <<12>>
    /\ OutStoppedAtLine12 => output = <<EvaluatedLine>>

Shown(value) ==
    IF Len(value) > ellipsis_limit
    THEN SubSeq(value, 1, ellipsis_limit) \o <<"...">>
    ELSE value

\* C9: in the scenario, stopped at line 11, `state` prints its two header
\* lines, a blank line, 'x = ' and the value of X_1 (cut after 50
\* characters), then 'Currently evaluating x + 1'; `out` asks for 'until 12'
\* and, once the target stops at line 12, prints the value of R_1.
C9_Scenario ==
    /\ StateAtLine11 =>
           /\ Len(output) = 5
           /\ SubSeq(output, 3, 5) =
                  <<BlankLine,
                    Line("{}{} = {}", <<<<"x">>, <<>>, Shown(frame_vars[Lower(GenX)])>>),
                    Line("Currently evaluating {}", <<<<"x + 1">>>>)>>
    /\ (cmd.name = "out" /\ pc = "running" /\ cur_line = 11) => untils = <<12>>
    /\ OutStoppedAtLine12 => output = <<EvaluatedLine>>

\* `out` has stopped at line 12 and printed a value longer than 50
\* characters.
C9_Witness ==
    /\ OutStoppedAtLine12
    /\ untils = <<12>>
    /\ output = <<EvaluatedLine>>
    /\ Len(frame_vars[Lower(GenR)]) > ellipsis_limit

====
